---- MODULE Spec2Model ----
(***************************************************************************)
(* BoggleSolver.py: check_input_args and the BoggleBoard class.            *)
(*                                                                         *)
(* Strings are sequences of one-character strings; a board position p of   *)
(* the program (0..15) reads element p + 1 of the board sequence.          *)
(***************************************************************************)
EXTENDS Integers, Sequences, FiniteSets, TLC

\* ------------------------------------------------------------------------
\* Characters and the str methods the program uses
\* ------------------------------------------------------------------------

alphabet ==
  <<"a","b","c","d","e","f","g","h","i","j","k","l","m",
    "n","o","p","q","r","s","t","u","v","w","x","y","z">>

UpperCase ==
  <<"A","B","C","D","E","F","G","H","I","J","K","L","M",
    "N","O","P","Q","R","S","T","U","V","W","X","Y","Z">>

WhiteSpace == {" ", "\t", "\n", "\r"}

Range(s) == {s[k] : k \in 1..Len(s)}

IndexIn(s, c) == CHOOSE k \in 1..Len(s) : s[k] = c

\* ord(c) for the characters of the inputs
Ord(c) ==
  IF c \in Range(alphabet) THEN 96 + IndexIn(alphabet, c)
  ELSE IF c \in Range(UpperCase) THEN 64 + IndexIn(UpperCase, c)
  ELSE IF c = "\t" THEN 9
  ELSE IF c = "\n" THEN 10
  ELSE IF c = "\r" THEN 13
  ELSE IF c = " " THEN 32
  ELSE 49

LowerIdentity(s) == s

\* str.lower()
Lower(s) ==
  [k \in 1..Len(s) |->
     IF s[k] \in Range(UpperCase) THEN alphabet[IndexIn(UpperCase, s[k])]
     ELSE s[k]]

\* "".join(s.split())
RECURSIVE JoinSplit(_)
JoinSplit(s) ==
  IF s = <<>> THEN <<>>
  ELSE IF Head(s) \in WhiteSpace THEN JoinSplit(Tail(s))
  ELSE <<Head(s)>> \o JoinSplit(Tail(s))

\* str.isalpha()
IsAlpha(s) ==
  /\ Len(s) > 0
  /\ \A k \in 1..Len(s) : s[k] \in Range(alphabet) \cup Range(UpperCase)

\* str.strip()
RECURSIVE LStrip(_)
LStrip(s) ==
  IF s # <<>> /\ Head(s) \in WhiteSpace THEN LStrip(Tail(s)) ELSE s

RECURSIVE RStrip(_)
RStrip(s) ==
  IF s # <<>> /\ s[Len(s)] \in WhiteSpace
  THEN RStrip(SubSeq(s, 1, Len(s) - 1)) ELSE s

Strip(s) == LStrip(RStrip(s))

\* word.startswith(prefix)
StartsWith(word, prefix) ==
  /\ Len(prefix) <= Len(word)
  /\ SubSeq(word, 1, Len(prefix)) = prefix

\* a < b on str
RECURSIVE StrLess(_, _)
StrLess(a, b) ==
  IF a = <<>> THEN b # <<>>
  ELSE IF b = <<>> THEN FALSE
  ELSE IF Head(a) = Head(b) THEN StrLess(Tail(a), Tail(b))
  ELSE Ord(Head(a)) < Ord(Head(b))

RECURSIVE ReverseSorted(_)
ReverseSorted(S) ==
  IF S = {} THEN <<>>
  ELSE LET m == CHOOSE x \in S : \A y \in S : x = y \/ StrLess(y, x)
       IN  <<m>> \o ReverseSorted(S \ {m})

\* sorted(list(S)) for a set of str
RECURSIVE Sorted(_)
Sorted(S) ==
  IF S = {} THEN <<>>
  ELSE LET m == CHOOSE x \in S : \A y \in S : x = y \/ StrLess(x, y)
       IN  <<m>> \o Sorted(S \ {m})

\* ------------------------------------------------------------------------
\* Program constants
\* ------------------------------------------------------------------------

BoardLen == 16
LastIndex == 15
RowLen == 4
\* a dictionary word is kept when MinLenExcl < len(word) < MaxLenExcl
MinLenExcl == 2
MaxLenExcl == 18

Positions == 0..LastIndex

possible_moves == <<-5, -4, -3, -1, 1, 3, 4, 5>>

\* ------------------------------------------------------------------------
\* Bounds and inputs
\* ------------------------------------------------------------------------

\* most lines a dictionary file holds
MaxDictLines == 2

NL(w) == w \o <<"\n">>

\* The lines dictionary files are made of, alphabetized as the program's
\* documentation asks; a dictionary file is a selection of at most
\* MaxDictLines of them, in this order.
MasterLines ==
  << NL(<<"d","i","s","q","u","a","l","i","f","i","c","a","t","i","o","n","q","u">>),
     NL(<<"d","i","s","q","u","a","l","i","f","i","c","a","t","i","o","n","s">>),
     NL(<<"m","i","s","u","n","d","e","r","s","t","a","n","d","i","n","g">>),
     NL(<<"q","u","i","t">>),
     NL(<<"v","i">>),
     NL(<<"v","i","a">>),
     <<"v","i","a","\r","\n">>,
     NL(<<"v","i","a","l">>),
     NL(<<"v","i","v","a">>) >>

RECURSIVE PickLines(_)
PickLines(S) ==
  IF S = {} THEN <<>>
  ELSE LET m == CHOOSE x \in S : \A y \in S : x <= y
       IN  <<MasterLines[m]>> \o PickLines(S \ {m})

DictFiles ==
  {[isfile |-> TRUE, lines |-> PickLines(S)] :
      S \in {T \in SUBSET (1..Len(MasterLines)) : Cardinality(T) <= MaxDictLines}}
  \cup {[isfile |-> FALSE, lines |-> <<>>]}

\* Board arguments, grouped in families: the members of one family are the
\* same board written with different case and whitespace (as the tests
\* test_whitespace and test_capitalization do).  isfile says whether the
\* argument names a file holding the text or is the text itself.
BoardFamilies ==
  << << [isfile |-> FALSE, text |->
           <<"V","V","V","V","V","V","I","A","V","V","V","V","V","V","V","V">>],
        [isfile |-> FALSE, text |->
           <<"v","v","v","v","v","v","i","a","v","v","v","v","v","v","v","v">>],
        [isfile |-> TRUE, text |->
           <<"V"," ","v"," ","V"," ","V","\n","v","V","\t","i"," "," ","A","\r","\n",
             "V","V","V","V","\n","v","v","v","v","\n">>] >>,
     << [isfile |-> FALSE, text |->
           <<"m","i","s","u","r","e","d","n","s","t","a","n","g","n","i","d">>] >>,
     << [isfile |-> TRUE, text |->
           <<"d","i","s","q","\n","f","i","l","a","\n","i","c","a","t","\n",
             "s","n","o","i","\n">>] >>,
     << [isfile |-> FALSE, text |->
           <<"d","i","s","q","f","i","l","a","i","c","a","t","q","n","o","i">>] >>,
     << [isfile |-> FALSE, text |->
           <<"x","x","x","x","x","q","i","x","x","x","t","x","x","x","x","x">>] >>,
     << [isfile |-> FALSE, text |->
           <<"x","x","x","x","x","q","u","x","x","i","t","x","x","x","x","x">>] >>,
     << [isfile |-> FALSE, text |->
           <<"X","X","X","X","X","X","X","X","X","X","X","X","X","X","X","X">>] >>,
     << [isfile |-> FALSE, text |-> <<"v","i","a">>] >>,
     << [isfile |-> FALSE, text |->
           <<"v","v","v","v","v","v","i","a","v","v","v","v","v","v","v","1">>] >>,
     << [isfile |-> TRUE, text |->
           <<"v","v","v","v","\n","v","v","i","a","\n","v","v","v","v","\n",
             "v","v","v","v","v","\n">>] >> >>

NoMoves == [p \in {} |-> {}]
NoWords == [a \in {} |-> {}]
NoFile == [opened |-> FALSE, lines |-> <<>>]
NoPrev == [run |-> FALSE]

\* ------------------------------------------------------------------------
\* State
\* ------------------------------------------------------------------------

VARIABLES
  pc,                    \* the method of BoggleBoard.__init__ about to run
  error,                 \* the exception that ended the construction
  dict_file,             \* self.dict_file and the file it names
  board_arg,             \* self.board_arg and the file it may name
  family, member,        \* where board_arg stands in BoardFamilies
  out_file,              \* the file self.out_file names
  possible_index_moves,  \* BoggleBoard.possible_index_moves (class level)
  board,                 \* self.board
  valid_words,           \* self.valid_words
  found_words,           \* self.found_words
  i,                     \* the loop index of _solve_board
  stack,                 \* the pending calls of _find_words, next one first
  prev,                  \* what the previous construction read and wrote
  args,                  \* the arguments of check_input_args
  files,                 \* the paths os.path.isfile accepts
  args_pc,               \* the position in check_input_args
  args_error             \* the IOError check_input_args raised

vars == <<pc, error, dict_file, board_arg, family, member, out_file,
          possible_index_moves, board, valid_words, found_words, i, stack,
          prev, args, files, args_pc, args_error>>

boggle_vars == <<pc, error, dict_file, board_arg, family, member, out_file,
                 possible_index_moves, board, valid_words, found_words, i,
                 stack, prev>>

args_vars == <<args, files, args_pc, args_error>>

\* ------------------------------------------------------------------------
\* BoggleBoard._get_possible_index_moves
\* ------------------------------------------------------------------------

\* "index < 4 == 0" is the chained comparison (index < 4) and (4 == 0)
TopRowCond(index) == index < 4 /\ 4 = 0

\* "index > 11 == 3" is (index > 11) and (11 == 3)
BottomRowCond(index) == index > 11 /\ 11 = 3

InRange(index) ==
  {move \in Range(possible_moves) : index + move >= 0 /\ index + move <= LastIndex}

NoRightColumn_get_possible_index_moves(index) ==
  IF index % RowLen = 0 THEN InRange(index) \ {-5, -1, 3} ELSE InRange(index)

_get_possible_index_moves(index) ==
  LET in_range == InRange(index)
      columns == IF index % RowLen = 0 THEN in_range \ {-5, -1, 3}
                 ELSE IF index % RowLen = 3 THEN in_range \ {-3, 1, 5}
                 ELSE in_range
  IN  IF TopRowCond(index) THEN columns \ {-5, -4, -3}
      ELSE IF BottomRowCond(index) THEN columns \ {3, 4, 5}
      ELSE columns

\* ------------------------------------------------------------------------
\* BoggleBoard._load_board
\* ------------------------------------------------------------------------

Sterilize(text) == JoinSplit(Lower(text))

LengthOnly_board_assert(b) == Len(b) = BoardLen

\* the assert of _load_board
board_assert(b) == Len(b) = BoardLen /\ IsAlpha(b)

\* ------------------------------------------------------------------------
\* BoggleBoard._load_dictionary
\* ------------------------------------------------------------------------

Stripped(lines) == [k \in 1..Len(lines) |-> Strip(lines[k])]

FourUp_dict_words(lines) ==
  LET Keep(word) == Len(word) > MinLenExcl + 1 /\ Len(word) < MaxLenExcl
  IN  SelectSeq(Stripped(lines), Keep)

dict_words(lines) ==
  LET Keep(word) == Len(word) > MinLenExcl /\ Len(word) < MaxLenExcl
  IN  SelectSeq(Stripped(lines), Keep)

NoQu_missing_letters(b) ==
  LET Missing(letter) == letter \notin Range(b)
  IN  SelectSeq(alphabet, Missing)

missing_letters(b) ==
  LET Missing(letter) == letter \notin Range(b)
      missing == SelectSeq(alphabet, Missing)
      NotU(letter) == letter # "u"
  IN  IF "q" \notin Range(missing) /\ "u" \in Range(missing)
      THEN SelectSeq(missing, NotU)
      ELSE missing

present_letters(b) ==
  LET Present(letter) == letter \notin Range(missing_letters(b))
  IN  SelectSeq(alphabet, Present)

remove_words(words, b) ==
  {word \in Range(words) :
     \E letter \in Range(missing_letters(b)) : letter \in Range(word)}

unsorted_valid_words(lines, b) ==
  LET words == dict_words(lines)
      Valid(word) == word \notin remove_words(words, b)
  IN  SelectSeq(words, Valid)

\* the nested dict: first letter, second letter, list of words
BuildValidWords(lines, b) ==
  LET keys == Range(present_letters(b))
      words == unsorted_valid_words(lines, b)
  IN  [first \in keys |->
        [second \in keys |->
           LET InBucket(word) == word[1] = first /\ word[2] = second
           IN  SelectSeq(words, InBucket)]]

\* self.valid_words[a][b] raises KeyError
KeyMissing(vw, a, b) == a \notin DOMAIN vw \/ b \notin DOMAIN vw[a]

\* ------------------------------------------------------------------------
\* BoggleBoard._find_words
\* ------------------------------------------------------------------------

Unmarked_MarkUsed(used_letter_arg, index) == used_letter_arg

\* used_letter = copy of used_letter_arg; used_letter[index] = True
MarkUsed(used_letter_arg, index) == [used_letter_arg EXCEPT ![index] = TRUE]

RECURSIVE Ascending(_)
Ascending(S) ==
  IF S = {} THEN <<>>
  ELSE LET m == CHOOSE x \in S : \A y \in S : x <= y
       IN  <<m>> \o Ascending(S \ {m})

\* the moves of index that lead to an unused letter (the set is read in
\* ascending order)
available_moves(index, used_letter) ==
  Ascending({move \in possible_index_moves[index] : ~used_letter[index + move]})

RECURSIVE cur_word(_, _)
cur_word(cur_path, b) ==
  IF cur_path = <<>> THEN <<>>
  ELSE LET letter == b[Head(cur_path) + 1]
       IN  (IF letter = "q" THEN <<"q", "u">> ELSE <<letter>>)
             \o cur_word(Tail(cur_path), b)

ExactOnly_is_word_start(word, bucket) ==
  \E k \in 1..Len(bucket) : bucket[k] = word

\* some word of the bucket starts with word
is_word_start(word, bucket) ==
  \E k \in 1..Len(bucket) : StartsWith(bucket[k], word)

PrefixToo_is_found(word, bucket) ==
  Len(word) > MinLenExcl /\ \E k \in 1..Len(bucket) : StartsWith(bucket[k], word)

\* len(cur_word) > 2 and cur_word in bucket
is_found(word, bucket) ==
  Len(word) > MinLenExcl /\ \E k \in 1..Len(bucket) : bucket[k] = word

Calls(moves, index, used_letter, cur_path) ==
  [k \in 1..Len(moves) |->
     [index |-> index + moves[k],
      used_letter_arg |-> used_letter,
      cur_path_arg |-> cur_path]]

\* ------------------------------------------------------------------------
\* The construction of a BoggleBoard
\* ------------------------------------------------------------------------

BoardArgs ==
  {<<f, m>> : f \in 1..Len(BoardFamilies), m \in 1..3} \cap
  {fm \in (1..Len(BoardFamilies)) \X (1..3) : fm[2] <= Len(BoardFamilies[fm[1]])}

ArgsIdle == [dict_arg |-> <<>>, board_arg |-> <<>>]

Init ==
  /\ pc = "__init__"
  /\ error = "none"
  /\ dict_file \in DictFiles
  /\ \E fm \in BoardArgs :
       /\ family = fm[1]
       /\ member = fm[2]
       /\ board_arg = BoardFamilies[fm[1]][fm[2]]
  /\ out_file = NoFile
  /\ possible_index_moves = NoMoves
  /\ board = <<>>
  /\ valid_words = NoWords
  /\ found_words = {}
  /\ i = 0
  /\ stack = <<>>
  /\ prev = NoPrev
  /\ args = ArgsIdle
  /\ files = {}
  /\ args_pc = "idle"
  /\ args_error = "none"

\* __init__ up to _build_possible_index_moves
BuildPossibleIndexMoves ==
  /\ pc = "__init__" /\ error = "none"
  /\ board' = <<>>
  /\ valid_words' = NoWords
  /\ found_words' = {}
  /\ possible_index_moves' =
       [index \in Positions |-> _get_possible_index_moves(index)]
  /\ pc' = "_load_board"
  /\ UNCHANGED <<error, dict_file, board_arg, family, member, out_file, i,
                 stack, prev>>
  /\ UNCHANGED args_vars

LoadBoard ==
  /\ pc = "_load_board" /\ error = "none"
  /\ board' = Sterilize(board_arg.text)
  /\ IF board_assert(board')
     THEN pc' = "_load_dictionary" /\ error' = error
     ELSE pc' = pc /\ error' = "AssertionError"
  /\ UNCHANGED <<dict_file, board_arg, family, member, out_file,
                 possible_index_moves, valid_words, found_words, i, stack, prev>>
  /\ UNCHANGED args_vars

LoadDictionary ==
  /\ pc = "_load_dictionary" /\ error = "none"
  /\ IF ~dict_file.isfile
     THEN /\ error' = "AssertionError"
          /\ UNCHANGED <<pc, valid_words>>
     ELSE LET keys == Range(present_letters(board))
              words == unsorted_valid_words(dict_file.lines, board)
          IN  IF \E k \in 1..Len(words) :
                     words[k][1] \notin keys \/ words[k][2] \notin keys
              THEN /\ error' = "KeyError"
                   /\ UNCHANGED <<pc, valid_words>>
              ELSE /\ valid_words' = BuildValidWords(dict_file.lines, board)
                   /\ pc' = "_solve_board"
                   /\ error' = error
  /\ UNCHANGED <<dict_file, board_arg, family, member, out_file,
                 possible_index_moves, board, found_words, i, stack, prev>>
  /\ UNCHANGED args_vars

AllUnused == [p \in Positions |-> FALSE]

\* where _solve_board stands: a call of _find_words is running, the loop
\* has a starting cell left, or the loop is over
Running == stack # <<>>
CanCall == stack = <<>> /\ i < BoardLen
CanWrite == stack = <<>> /\ i = BoardLen

\* one turn of the loop of _solve_board: the call _find_words(i, used_letter, [])
SolveBoardCall ==
  /\ pc = "_solve_board" /\ error = "none"
  /\ CanCall
  /\ stack' = <<[index |-> i, used_letter_arg |-> AllUnused, cur_path_arg |-> <<>>]>>
  /\ i' = i + 1
  /\ UNCHANGED <<pc, error, dict_file, board_arg, family, member, out_file,
                 possible_index_moves, board, valid_words, found_words, prev>>
  /\ UNCHANGED args_vars

\* the body of one call of _find_words; the calls it makes are put in front
\* of the pending ones
FindWords ==
  /\ pc = "_solve_board" /\ error = "none"
  /\ Running
  /\ LET call == Head(stack)
         index == call.index
         used_letter == MarkUsed(call.used_letter_arg, index)
         cur_path == Append(call.cur_path_arg, index)
         moves == available_moves(index, used_letter)
         word == cur_word(cur_path, board)
     IN  IF Len(cur_path) = 1
         THEN /\ stack' = Calls(moves, index, used_letter, cur_path) \o Tail(stack)
              /\ UNCHANGED <<found_words, error>>
         ELSE IF KeyMissing(valid_words, word[1], word[2])
         THEN /\ error' = "KeyError"
              /\ UNCHANGED <<found_words, stack>>
         ELSE LET bucket == valid_words[word[1]][word[2]]
              IN  /\ found_words' = IF is_found(word, bucket)
                                    THEN found_words \cup {word}
                                    ELSE found_words
                  /\ stack' = IF is_word_start(word, bucket)
                              THEN Calls(moves, index, used_letter, cur_path)
                                     \o Tail(stack)
                              ELSE Tail(stack)
                  /\ error' = error
  /\ UNCHANGED <<pc, dict_file, board_arg, family, member, out_file,
                 possible_index_moves, board, valid_words, i, prev>>
  /\ UNCHANGED args_vars

WrittenLines(out_words) == [k \in 1..Len(out_words) |-> out_words[k] \o <<"\n">>]

\* the end of _solve_board: sort and write
WriteOutput ==
  /\ pc = "_solve_board" /\ error = "none"
  /\ CanWrite
  /\ out_file' = [opened |-> TRUE, lines |-> WrittenLines(Sorted(found_words))]
  /\ pc' = "done"
  /\ UNCHANGED <<error, dict_file, board_arg, family, member,
                 possible_index_moves, board, valid_words, found_words, i,
                 stack, prev>>
  /\ UNCHANGED args_vars

\* The next BoggleBoard(...) of a test: the same dictionary, the next way
\* of writing the same board, another output file.  The class attribute
\* possible_index_moves is kept; the fields of the new object are not set yet.
NextConstruction ==
  /\ pc = "done"
  /\ ~prev.run
  /\ \E m \in 1..Len(BoardFamilies[family]) :
       /\ m > member
       /\ member' = m
       /\ board_arg' = BoardFamilies[family][m]
  /\ prev' = [run |-> TRUE, board_arg |-> board_arg, board |-> board,
              valid_words |-> valid_words, out_file |-> out_file]
  /\ out_file' = NoFile
  /\ board' = <<>>
  /\ valid_words' = NoWords
  /\ found_words' = {}
  /\ i' = 0
  /\ pc' = "__init__"
  /\ UNCHANGED <<error, dict_file, family, possible_index_moves, stack>>
  /\ UNCHANGED args_vars

Next ==
  \/ BuildPossibleIndexMoves
  \/ LoadBoard
  \/ LoadDictionary
  \/ SolveBoardCall
  \/ FindWords
  \/ WriteOutput
  \/ NextConstruction

Spec == Init /\ [][Next]_vars

\* ------------------------------------------------------------------------
\* check_input_args
\* ------------------------------------------------------------------------

\* A path is <<directory, file name>>; the directory "." makes it relative.
\* The arguments a caller passes:
RelativeArgs == {<<".", "dictionary.txt">>, <<".", "board_1.txt">>, <<".", "bad_file.txt">>}
AbsoluteArgs == {<<"/home/boggle", "board_2.txt">>}
ArgNames == RelativeArgs \cup AbsoluteArgs

\* os.path.join(DATA_DIR, path): an absolute path replaces DATA_DIR
JoinDataDir(path) == IF path[1] = "." THEN <<"DATA_DIR", path[2]>> ELSE path

Paths == ArgNames \cup {JoinDataDir(a) : a \in ArgNames}

\* os.path.isfile(path)
isfile(path) == path \in files

AlwaysJoin_Located(arg) == JoinDataDir(arg)

\* the path an argument is replaced by before the assert on it
Located(arg) == IF ~isfile(arg) THEN JoinDataDir(arg) ELSE arg

InitArgs ==
  /\ pc = "idle"
  /\ error = "none"
  /\ dict_file = [isfile |-> FALSE, lines |-> <<>>]
  /\ board_arg = [isfile |-> FALSE, text |-> <<>>]
  /\ family = 0
  /\ member = 0
  /\ out_file = NoFile
  /\ possible_index_moves = NoMoves
  /\ board = <<>>
  /\ valid_words = NoWords
  /\ found_words = {}
  /\ i = 0
  /\ stack = <<>>
  /\ prev = NoPrev
  /\ files \in SUBSET Paths
  /\ \E d \in ArgNames, b \in ArgNames :
       args = [dict_arg |-> d, board_arg |-> b, given |-> [dict_arg |-> d, board_arg |-> b]]
  /\ args_pc = "dict_arg"
  /\ args_error = "none"

\* lines 23-28
CheckDictArg ==
  /\ args_pc = "dict_arg"
  /\ LET located == Located(args.dict_arg)
     IN  IF isfile(located)
         THEN /\ args' = [args EXCEPT !.dict_arg = located]
              /\ args_pc' = "board_arg"
              /\ args_error' = args_error
         ELSE /\ args' = [args EXCEPT !.dict_arg = located]
              /\ args_pc' = "raised"
              /\ args_error' = "IOError: Dictionary file not found."
  /\ UNCHANGED files
  /\ UNCHANGED boggle_vars

\* lines 30-37
CheckBoardArg ==
  /\ args_pc = "board_arg"
  /\ LET located == Located(args.board_arg)
     IN  IF isfile(located)
         THEN /\ args' = [args EXCEPT !.board_arg = located]
              /\ args_pc' = "returned"
              /\ args_error' = args_error
         ELSE /\ args' = [args EXCEPT !.board_arg = located]
              /\ args_pc' = "raised"
              /\ args_error' = "IOError: Board file not found."
  /\ UNCHANGED files
  /\ UNCHANGED boggle_vars

NextArgs == CheckDictArg \/ CheckBoardArg

SpecArgs == InitArgs /\ [][NextArgs]_vars

\* ------------------------------------------------------------------------
\* What the properties speak of
\* ------------------------------------------------------------------------

Abs(n) == IF n < 0 THEN -n ELSE n

\* king-move neighbours on the 4x4 grid, by rows and columns
KingAdjacent(p, r) ==
  /\ r # p
  /\ Abs((r \div 4) - (p \div 4)) <= 1
  /\ Abs((r % 4) - (p % 4)) <= 1

KingNeighbours(p) == {r \in Positions : KingAdjacent(p, r)}

CellText(b, p) == IF b[p + 1] = "q" THEN <<"q", "u">> ELSE <<b[p + 1]>>

RECURSIVE TraceFrom(_, _, _, _)
TraceFrom(b, last, visited, rest) ==
  \/ rest = <<>>
  \/ \E n \in KingNeighbours(last) \ visited :
       LET t == CellText(b, n)
       IN  /\ StartsWith(rest, t)
           /\ TraceFrom(b, n, visited \cup {n}, SubSeq(rest, Len(t) + 1, Len(rest)))

\* w is the accumulated string of some simple adjacent path on board b
Traceable(b, w) ==
  \E p \in Positions :
    LET t == CellText(b, p)
    IN  /\ StartsWith(w, t)
        /\ TraceFrom(b, p, {p}, SubSeq(w, Len(t) + 1, Len(w)))

NotSpace(c) == c \notin WhiteSpace

\* the words the dictionary file lists
DictEntries == {SelectSeq(dict_file.lines[k], NotSpace) : k \in 1..Len(dict_file.lines)}

PlayableEntries == {w \in DictEntries : Len(w) >= 3 /\ Len(w) <= 17}

\* the words written to the output file, in the order written
OutputWords ==
  [k \in 1..Len(out_file.lines) |->
     SubSeq(out_file.lines[k], 1, Len(out_file.lines[k]) - 1)]

\* lexicographic order on words
LexLess(a, b) ==
  \E k \in 1..(Len(b)) :
    /\ \A j \in 1..(k - 1) : j <= Len(a) /\ a[j] = b[j]
    /\ \/ k = Len(a) + 1
       \/ k <= Len(a) /\ Ord(a[k]) < Ord(b[k])

Letters == Range(alphabet)

Capitals == Range(UpperCase)

SmallOf == [c \in Capitals |-> alphabet[CHOOSE j \in 1..26 : UpperCase[j] = c]]

\* a board argument with its whitespace removed, then lowercased
Normalized(text) ==
  LET kept == SelectSeq(text, NotSpace)
  IN  [k \in 1..Len(kept) |->
         IF kept[k] \in Capitals THEN SmallOf[kept[k]] ELSE kept[k]]

ValidBoardText(text) ==
  LET n == Normalized(text)
  IN  Len(n) = 16 /\ \A k \in 1..16 : n[k] \in Letters

Done == pc = "done"

\* ------------------------------------------------------------------------
\* Properties
\* ------------------------------------------------------------------------

\* C1: every word written to the output is a dictionary entry and the
\* accumulated string of a simple adjacent path on the board; a board none
\* of whose letters occurs in a dictionary word of 3 or more letters gives an
\* empty output.
Soundness ==
  Done =>
    /\ \A k \in 1..Len(OutputWords) :
         /\ OutputWords[k] \in DictEntries
         /\ Traceable(board, OutputWords[k])
    /\ (\A w \in DictEntries : Len(w) >= 3 => Range(w) \cap Range(board) = {})
         => out_file.lines = <<>>

SoundnessWitness ==
  /\ Done
  /\ OutputWords = << <<"v","i","a">> >>
  /\ <<"v","i","a","l">> \in DictEntries

\* C2 as stated: every dictionary word absent from the output cannot be
\* traced on the board.
CompletenessAllEntries ==
  Done =>
    \A w \in DictEntries :
      w \notin Range(OutputWords) => ~Traceable(board, w)

\* C2 amended: every dictionary word of 3 to 17 letters absent from the
\* output cannot be traced on the board; when exactly one such word can be
\* traced the output is exactly that word.
Completeness ==
  Done =>
    /\ \A w \in PlayableEntries :
         w \notin Range(OutputWords) => ~Traceable(board, w)
    /\ \A w \in PlayableEntries :
         {x \in PlayableEntries : Traceable(board, x)} = {w} => OutputWords = <<w>>

CompletenessWitness ==
  /\ Done
  /\ DictEntries = { <<"v","i">>, <<"v","i","a">> }
  /\ OutputWords = << <<"v","i","a">> >>

\* C3: the written words are strictly increasing in lexicographic order and
\* made of lowercase letters only.
OutputSorted ==
  Done =>
    /\ \A k \in 1..(Len(OutputWords) - 1) : LexLess(OutputWords[k], OutputWords[k + 1])
    /\ \A k \in 1..Len(OutputWords) : Range(OutputWords[k]) \subseteq Letters

OutputSortedWitness ==
  /\ Done
  /\ OutputWords = << <<"v","i","a">>, <<"v","i","v","a">> >>

HasQNoU(b) == "q" \in Range(b) /\ "u" \notin Range(b)

Loaded == pc \in {"_solve_board", "done"}

\* _load_dictionary has returned and _solve_board has not begun its loop
JustLoaded == pc = "_solve_board" /\ i = 0

\* C4: on a board with a 'q' cell and no 'u' cell, every dictionary word of
\* 3 to 17 letters that can be traced (each 'q' cell read as "qu") is kept by
\* the dictionary filter, no bucket lookup fails, and the word is written.
Digraph ==
  HasQNoU(board) =>
    /\ error # "KeyError"
    /\ JustLoaded =>
         \A w \in PlayableEntries :
           Traceable(board, w) =>
             /\ ~KeyMissing(valid_words, w[1], w[2])
             /\ w \in Range(valid_words[w[1]][w[2]])
    /\ Done =>
         \A w \in PlayableEntries :
           Traceable(board, w) => w \in Range(OutputWords)

DigraphWitness ==
  /\ Done
  /\ HasQNoU(board)
  /\ <<"q","u","i","t">> \in Range(OutputWords)

Targets(p) == {p + move : move \in possible_index_moves[p]}

\* C5: the moves _build_possible_index_moves has just built lead, for every
\* position, exactly to its king-move neighbours, the relation is symmetric, and the top-row and bottom-row
\* conditions of the code hold for no position.
MovesAreKingMoves ==
  pc = "_load_board" =>
    /\ DOMAIN possible_index_moves = Positions
    /\ \A p \in Positions : Targets(p) = KingNeighbours(p)
    /\ \A p, r \in Positions : r \in Targets(p) <=> p \in Targets(r)
    /\ \A p \in Positions : ~TopRowCond(p) /\ ~BottomRowCond(p)

MovesWitness ==
  /\ pc = "_load_board"
  /\ possible_index_moves[3] = {-1, 3, 4}
  /\ possible_index_moves[12] = {-4, -3, 1}
  /\ Cardinality(possible_index_moves[5]) = 8

SameBoardAsBefore ==
  /\ prev.run
  /\ ValidBoardText(board_arg.text)
  /\ Normalized(board_arg.text) = Normalized(prev.board_arg.text)

\* C6: a board argument that is the same 16 letters as the previous one
\* after lowercasing and whitespace removal is stored as the identical board
\* and gives the identical output.
SameBoardSameOutput ==
  SameBoardAsBefore =>
    /\ Loaded \/ pc = "_load_dictionary" => board = prev.board
    /\ Done => out_file = prev.out_file

SameBoardWitness ==
  /\ SameBoardAsBefore
  /\ Done
  /\ board_arg.text # prev.board_arg.text
  /\ \E c \in Range(board_arg.text) : c \in WhiteSpace
  /\ Len(out_file.lines) = 2

\* the file of an argument is neither at the argument nor, for a relative
\* argument, under the data directory
Missing(arg) ==
  /\ arg \notin files
  /\ arg[1] = "." => <<"DATA_DIR", arg[2]>> \notin files

DictMissing == Missing(args.given.dict_arg)

BoardMissing == Missing(args.given.board_arg)

\* C7: check_input_args raises IOError when the dictionary file or the board
\* file is neither at its argument nor under the data directory (the
\* dictionary's error when both are missing); otherwise it returns two paths
\* of existing files, an argument that names an existing file unchanged.
InputArgsChecked ==
  args_pc \in {"returned", "raised"} =>
    /\ DictMissing => args_error = "IOError: Dictionary file not found."
    /\ ~DictMissing /\ BoardMissing => args_error = "IOError: Board file not found."
    /\ ~DictMissing /\ ~BoardMissing =>
         /\ args_pc = "returned" /\ args_error = "none"
         /\ args.dict_arg \in files /\ args.board_arg \in files
         /\ args.given.dict_arg \in files => args.dict_arg = args.given.dict_arg
         /\ args.given.board_arg \in files => args.board_arg = args.given.board_arg
    /\ args_pc = "raised" <=> DictMissing \/ BoardMissing

InputArgsWitness ==
  /\ args_pc = "returned"
  /\ args.given.dict_arg = <<".", "dictionary.txt">>
  /\ args.dict_arg = <<"DATA_DIR", "dictionary.txt">>
  /\ args.board_arg = <<"/home/boggle", "board_2.txt">>
  /\ <<".", "dictionary.txt">> \notin files

\* C8: a board argument that is not 16 letters after lowercasing and
\* whitespace removal ends the construction in _load_board with an
\* AssertionError: the dictionary is not loaded, no search step is taken and
\* the output file is never opened.
InvalidBoardFailsFast ==
  ~ValidBoardText(board_arg.text) =>
    /\ pc \in {"__init__", "_load_board"}
    /\ error \in {"none", "AssertionError"}
    /\ pc = "_load_board" /\ board # <<>> => error = "AssertionError"
    /\ valid_words = NoWords
    /\ found_words = {}
    /\ stack = <<>> /\ i = 0
    /\ out_file = NoFile

InvalidBoardWitness ==
  /\ error = "AssertionError"
  /\ pc = "_load_board"
  /\ Len(board) = 16
  /\ dict_file.isfile

\* C9: the words found by the pruned searches are exactly the dictionary
\* words of 3 to 17 letters that are the accumulated string of a simple
\* adjacent path, paths through all 16 cells included.
PrunedIsExhaustive ==
  Done => found_words = {w \in PlayableEntries : Traceable(board, w)}

PrunedWitness ==
  /\ Done
  /\ <<"d","i","s","q","u","a","l","i","f","i","c","a","t","i","o","n","s">> \in found_words
  /\ <<"d","i","s","q","u","a","l","i","f","i","c","a","t","i","o","n","q","u">> \in DictEntries

NoRepeat(path) == \A j, k \in 1..Len(path) : path[j] = path[k] => j = k

CallOK(call) ==
  /\ NoRepeat(Append(call.cur_path_arg, call.index))
  /\ \A p \in Positions : call.used_letter_arg[p] <=> p \in Range(call.cur_path_arg)
  /\ Len(call.cur_path_arg) + 1 <= 16

CallsOK == \A k \in 1..Len(stack) : CallOK(stack[k])

Solving == pc = "_solve_board" /\ error = "none"

\* The first pending call of st is replaced, in st2, by calls with longer
\* paths, the other pending calls staying as they are.
Replaced(st, st2) ==
  LET n == Len(st2) - (Len(st) - 1)
  IN  /\ n >= 0
      /\ SubSeq(st2, n + 1, Len(st2)) = Tail(st)
      /\ \A k \in 1..n : Len(st2[k].cur_path_arg) > Len(Head(st).cur_path_arg)

\* C10: every call of _find_words has a path without repeated position, of
\* at most 16 positions, and used_letter marks exactly the positions of the
\* path; the solve finishes: while it runs a step can be taken, and every
\* step ends it, uses up a starting cell, or replaces one pending call by
\* calls with longer paths (which, paths being at most 16 long, cannot go on
\* forever).
SearchTerminates ==
  /\ [](CallsOK /\ (Solving => Running \/ CanCall \/ CanWrite))
  /\ [][Solving =>
          \/ Done'
          \/ Solving' /\ i' = i + 1 /\ i' <= 16
          \/ Solving' /\ i' = i /\ Running /\ Replaced(stack, stack')]_vars

SearchWitness ==
  /\ pc = "_solve_board"
  /\ \E k \in 1..Len(stack) : Len(stack[k].cur_path_arg) = 15

====
